---- MODULE Spec2Model ----
(***************************************************************************)
(* State-machine model of VideoImageConverterTool                          *)
(* (src/tools/video_image_converter/video_image_converter_tool.py).        *)
(*                                                                         *)
(* The tool keeps a dictionary of pending conversions keyed by token.      *)
(* execute_tool validates an upload and records a job, convert_and_save    *)
(* runs the conversion of a recorded job when its download is requested,   *)
(* and cleanup_old_files removes old or downloaded jobs and their files.   *)
(*                                                                         *)
(* Python values are modelled as follows.  A str that the code inspects    *)
(* character by character (a declared filename, an archive member name, an *)
(* fps value) is a sequence of one-character strings; a str that is only   *)
(* stored, compared or interpolated is a TLA+ string.  A dict is a         *)
(* function whose DOMAIN is its key set.  A filesystem path is the tuple   *)
(* of the pieces the code joins or interpolates.  None is the empty tuple. *)
(***************************************************************************)
EXTENDS Naturals, Sequences, FiniteSets, TLC

(***************************************************************************)
(* Bounds of the model.                                                    *)
(***************************************************************************)
\* number of tokens uuid4 hands out in a run
MaxTokens == 2
\* last instant (in minutes) the clock reaches
MaxTime == 61
\* largest number of members of a generated archive
MaxMembers == 3

(***************************************************************************)
(* Program constants.                                                      *)
(***************************************************************************)
\* the 2 of "2 * 1024 * 1024 * 1024" in execute_tool; sizes are kept as
\* [hi, lo] = hi * 1024^3 + lo because Python's integers are unbounded and
\* 2 * 1024^3 does not fit 32 bits
LimitGiB == 2
\* timedelta(hours=1), in minutes
RetentionMinutes == 60

None == <<>>

(***************************************************************************)
(* str helpers.                                                            *)
(***************************************************************************)
UpperCase == <<"A","B","C","D","E","F","G","H","I","J","K","L","M",
               "N","O","P","Q","R","S","T","U","V","W","X","Y","Z">>
LowerCase == <<"a","b","c","d","e","f","g","h","i","j","k","l","m",
               "n","o","p","q","r","s","t","u","v","w","x","y","z">>
Digits == <<"0","1","2","3","4","5","6","7","8","9">>

\* the lower-case letter of every upper-case letter
to_lower == [c \in { UpperCase[i] : i \in DOMAIN UpperCase } |->
                LowerCase[CHOOSE i \in DOMAIN UpperCase : UpperCase[i] = c]]

\* str.lower() on one character
lowerChar(c) == IF c \in DOMAIN to_lower THEN to_lower[c] ELSE c

\* str.lower()
lower(s) == [i \in DOMAIN s |-> lowerChar(s[i])]

\* str.endswith(suffix)
endswith(s, suffix) ==
    /\ Len(suffix) <= Len(s)
    /\ SubSeq(s, Len(s) - Len(suffix) + 1, Len(s)) = suffix

\* whether int(s) succeeds (a non-empty run of decimal digits)
int_ok(s) ==
    /\ Len(s) > 0
    /\ \A i \in DOMAIN s : \E d \in DOMAIN Digits : Digits[d] = s[i]

\* dict.get(key, default)
get(d, key, default) == IF key \in DOMAIN d THEN d[key] ELSE default

(***************************************************************************)
(* Integers wider than 32 bits: [hi, lo] stands for hi * 1024^3 + lo.        *)
(***************************************************************************)
Big(hi, lo) == [hi |-> hi, lo |-> lo]

\* a >= b
BigGe(a, b) == a.hi > b.hi \/ (a.hi = b.hi /\ a.lo >= b.lo)

\* a > b
BigGt(a, b) == a.hi > b.hi \/ (a.hi = b.hi /\ a.lo > b.lo)

\* 2 * 1024 * 1024 * 1024
SizeLimit == Big(LimitGiB, 0)

(***************************************************************************)
(* Extension tables of the tool.                                           *)
(***************************************************************************)
video_extensions ==
    << <<".","m","p","4">>, <<".","a","v","i">>, <<".","m","o","v">>,
       <<".","m","k","v">>, <<".","w","m","v">>, <<".","f","l","v">>,
       <<".","w","e","b","m">>, <<".","m","4","v">> >>

zip_extension == <<".","z","i","p">>

image_extensions ==
    << <<".","p","n","g">>, <<".","j","p","g">>, <<".","j","p","e","g">>,
       <<".","g","i","f">>, <<".","b","m","p">>, <<".","w","e","b","p">>,
       <<".","t","i","f","f">> >>

_is_video_file(filename) ==
    LET lowered == lower(filename)
    IN \E i \in DOMAIN video_extensions : endswith(lowered, video_extensions[i])

\* the comparison without lower()
_is_zip_file_case_sensitive(filename) == endswith(filename, zip_extension)

_is_zip_file(filename) == endswith(lower(filename), zip_extension)

\* a filter that takes every member for an image
_is_image_file_unfiltered(filename) == TRUE

_is_image_file(filename) ==
    LET lowered == lower(filename)
    IN \E i \in DOMAIN image_extensions : endswith(lowered, image_extensions[i])

(***************************************************************************)
(* Paths.  os.path.join and the f-strings of the tool are injective on the *)
(* values used here, so a path is the tuple of its pieces.                 *)
(***************************************************************************)
\* tempfile.gettempdir()
temp_dir == "/tmp"
\* where the upload layer stages files before execute_tool is called
upload_dir == "/uploads"

\* os.path.join(self.temp_dir, f"images_{token}")
images_dir(token) == <<temp_dir, "images_", token>>
\* os.path.join(self.temp_dir, f"extracted_{token}")
extracted_dir(token) == <<temp_dir, "extracted_", token>>
\* os.path.join(self.temp_dir, f"images_{token}.zip")
images_zip_path(token) == <<temp_dir, "images_", token, ".zip">>
\* os.path.join(self.temp_dir, f"video_{token}.{video_format}")
video_path(token, video_format) == <<temp_dir, "video_", token, ".", video_format>>
\* os.path.join(temp_image_dir, name)
in_dir(dir, name) == dir \o <<"/", name>>

(***************************************************************************)
(* The environment: files the upload layer has staged.  A video is known   *)
(* by the number of frames the engine extracts from it, an archive by its  *)
(* members in archive order.                                               *)
(***************************************************************************)
clip_path == <<upload_dir, "clip.mkv">>
edge_path == <<upload_dir, "edge.mp4">>
over_path == <<upload_dir, "over.mp4">>
frames_path == <<upload_dir, "frames.zip">>
empty_path == <<upload_dir, "empty.zip">>

n_b_png == <<"b",".","p","n","g">>
n_a_PNG == <<"a",".","P","N","G">>
n_notes_txt == <<"n","o","t","e","s",".","t","x","t">>

Video(size, nframes) == [kind |-> "video", size |-> size, nframes |-> nframes]
Archive(size, members) == [kind |-> "zip", size |-> size, members |-> members]
Member(name, data) == [name |-> name, data |-> data]

\* what the staged files hold
Media ==
    [clip |-> Video(Big(0, 104857600), 2),
     edge |-> Video(Big(LimitGiB, 0), 1),
     over |-> Video(Big(LimitGiB, 1), 1),
     frames |-> Archive(Big(0, 4096),
            << Member(n_b_png, "B"), Member(n_notes_txt, "N"), Member(n_a_PNG, "A") >>),
     empty |-> Archive(Big(0, 512), << Member(n_notes_txt, "N") >>)]

\* a staged file, as the filesystem holds it
Upload(media) == [kind |-> "upload", media |-> media]

Uploads ==
    (clip_path :> Upload("clip"))
    @@ (edge_path :> Upload("edge"))
    @@ (over_path :> Upload("over"))
    @@ (frames_path :> Upload("frames"))
    @@ (empty_path :> Upload("empty"))

\* member names of generated archives, and the archives of up to MaxMembers
\* members with different names; the content of a member is tagged with its
\* name
n_a_png == <<"a",".","p","n","g">>
n_frame_0000_png == <<"f","r","a","m","e","_","0","0","0","0",".","p","n","g">>
n_frame_0001_png == <<"f","r","a","m","e","_","0","0","0","1",".","p","n","g">>
MemberNames == { n_a_png, n_b_png, n_a_PNG, n_frame_0000_png, n_frame_0001_png, n_notes_txt }

Listings ==
    UNION { { l \in [1..n -> MemberNames] : \A i, j \in 1..n : i # j => l[i] # l[j] } :
            n \in 1..MaxMembers }

\* a staged archive with the given listing
ArchiveUpload(listing) ==
    [kind |-> "upload", media |-> "inline",
     content |-> Archive(Big(0, 4096), [i \in DOMAIN listing |-> Member(listing[i], listing[i])])]

\* what a staged file holds
media_of(upload) ==
    IF upload.media = "inline" THEN upload.content ELSE Media[upload.media]

\* os.path.getsize(path) of a staged file
getsize(fs, path) == media_of(fs[path]).size

\* whether the file at path is a readable video / a readable archive
is_video(fs, path) ==
    path \in DOMAIN fs /\ fs[path].kind = "upload" /\ media_of(fs[path]).kind = "video"
is_archive(fs, path) ==
    path \in DOMAIN fs /\ fs[path].kind = "upload" /\ media_of(fs[path]).kind = "zip"

(***************************************************************************)
(* Requests the web layer passes to execute_tool.                          *)
(***************************************************************************)
f_mp4 == <<"a",".","m","p","4">>
f_avi == <<"a",".","a","v","i">>
f_mov == <<"a",".","m","o","v">>
f_mkv == <<"a",".","m","k","v">>
f_wmv == <<"a",".","w","m","v">>
f_flv == <<"a",".","f","l","v">>
f_webm == <<"a",".","w","e","b","m">>
f_m4v == <<"a",".","m","4","v">>
f_MKV == <<"A",".","M","K","V">>
f_zip == <<"f",".","z","i","p">>
f_ZIP == <<"f",".","Z","I","P">>
f_txt == <<"a",".","t","x","t">>
f_mkv_txt == <<"a",".","m","k","v",".","t","x","t">>
f_nodot == <<"m","k","v">>
f_zipx == <<"f",".","z","i","p","x">>

Filenames ==
    { f_mp4, f_avi, f_mov, f_mkv, f_wmv, f_flv, f_webm, f_m4v, f_MKV,
      f_zip, f_ZIP, f_txt, f_mkv_txt, f_nodot, f_zipx, <<>> }

Req(path, filename, conversion_type) ==
    [file |-> [file_path |-> path, filename |-> filename],
     conversion_type |-> conversion_type]

\* the optional form fields
no_options == <<>>
all_options ==
    [fps |-> <<"2","4">>, quality |-> "high", image_format |-> <<"j","p","g">>,
     video_format |-> "avi"]
bad_fps == [fps |-> <<"a","b","c">>]
bad_quality == [quality |-> "ultra"]

\* the requests of the lifecycle specification
Requests ==
    { Req(clip_path, f_mkv, "video_to_images"),
      Req(over_path, f_mp4, "video_to_images"),
      Req(frames_path, f_ZIP, "images_to_video") @@ all_options,
      Req(empty_path, f_ZIP, "images_to_video") }

\* a path at which nothing is staged
gone_path == <<upload_dir, "gone.mp4">>

\* the requests of the validation specification: every size, every name
\* under both conversion types, the default conversion type, and requests
\* with parts missing
ValidationRequests ==
    { Req(p, f, t) :
        p \in {clip_path, edge_path},
        f \in Filenames,
        t \in {"video_to_images", "images_to_video"} }
    \cup { Req(over_path, f, t) :
            f \in {f_mp4, f_zip, f_txt},
            t \in {"video_to_images", "images_to_video"} }
    \cup { [file |-> [file_path |-> p, filename |-> f]] :
            p \in {clip_path, over_path}, f \in {f_mkv, f_zip} }
    \cup { Req(gone_path, f_mp4, "video_to_images"),
           [file |-> [filename |-> f_mkv], conversion_type |-> "video_to_images"],
           [conversion_type |-> "video_to_images"],
           <<>> }

\* requests whose conversion_type field holds any string the form can post:
\* the two conversion types and one that is neither
DirectionRequests ==
    { Req(p, f, t) :
        p \in {clip_path, frames_path},
        f \in {f_mkv, f_zip, f_txt},
        t \in {"video_to_images", "images_to_video", "gif"} }

(***************************************************************************)
(* State.                                                                  *)
(***************************************************************************)
VARIABLES
    pending_conversions, \* self.pending_conversions: token -> job dict
    error_message,       \* self.error_message
    output,              \* self.output: the token the result page links to
    files,               \* the filesystem: path -> content
    now,                 \* the wall clock datetime.now() reads, in minutes
    issued,              \* how many tokens uuid.uuid4() has produced
    ret,                 \* the last call: which method, its argument, its result
    calls,               \* the external calls the last call made, in order
    delivered,           \* history: the tokens whose artifact path was returned
    sweep,               \* the call of cleanup_old_files in flight in another thread
    inflight             \* the call of convert_and_save in flight in another thread

vars == <<pending_conversions, error_message, output, files, now, issued, ret, calls,
          delivered, sweep, inflight>>

\* no call of cleanup_old_files is in flight
Idle == [pc |-> "idle", now |-> 0, used |-> 0, rest |-> <<>>, tokens_to_remove |-> <<>>,
         printed |-> "", start |-> {}]

\* no call of convert_and_save is in flight
NotConverting == [pc |-> "idle", token |-> "", conversion |-> <<>>, input |-> <<>>]

\* the instants the clock shows: the start, and the minutes around the end
\* of the retention window
Times == { t \in 0..MaxTime : t = 0 \/ t >= RetentionMinutes - 1 }

\* str(uuid.uuid4()): a value never returned before
TokenNames == <<"t1", "t2", "t3", "t4", "t5", "t6">>
Tokens == { TokenNames[i] : i \in 1..MaxTokens }
uuid4 == TokenNames[issued + 1]

\* the record of a call: the method, its token argument, the value it
\* returned, what it printed to the log, and the exception that escaped to
\* the caller ("" when it returned)
Ret(op, arg, value, printed) ==
    [op |-> op, arg |-> arg, value |-> value, printed |-> printed, raised |-> ""]

Init ==
    /\ pending_conversions = <<>>
    /\ error_message = ""
    /\ output = ""
    /\ files = Uploads
    /\ now = 0
    /\ issued = 0
    /\ ret = Ret("__init__", "", None, "")
    /\ calls = <<>>
    /\ delivered = {}
    /\ sweep = Idle
    /\ inflight = NotConverting

\* time passes between calls
Tick ==
    /\ \E t \in Times : t > now /\ now' = t
    /\ UNCHANGED <<pending_conversions, error_message, output, files, issued, ret, calls,
                   delivered, sweep, inflight>>

(***************************************************************************)
(* execute_tool                                                            *)
(***************************************************************************)
\* the error messages of execute_tool (umlauts transliterated)
msg_no_file == "Bitte waehlen Sie eine Datei aus."
msg_too_large == "Die Datei ist zu gross. Maximale Groesse ist 2GB."
msg_not_video == "Bitte waehlen Sie eine Videodatei aus."
msg_not_zip == "Bitte waehlen Sie eine ZIP-Datei mit Bildern aus."
msg_processing == "Fehler bei der Verarbeitung:"

\* the checks of execute_tool, in the order the code makes them: "" when
\* the request passes, else the error message set
execute_tool_error(input_params) ==
    IF "file" \notin DOMAIN input_params THEN msg_no_file
    ELSE LET file_info == input_params["file"] IN
    IF ~ ({"file_path", "filename"} \subseteq DOMAIN file_info)
        THEN msg_processing                \* KeyError
    ELSE LET file_path == file_info["file_path"]
             filename == file_info["filename"]
             conversion_type == get(input_params, "conversion_type", "video_to_images")
         IN
    IF file_path \notin DOMAIN files
        THEN msg_processing                \* os.path.getsize raises
    ELSE IF BigGt(getsize(files, file_path), SizeLimit)
        THEN msg_too_large
    ELSE IF conversion_type = "video_to_images" /\ ~ _is_video_file(filename)
        THEN msg_not_video
    ELSE IF conversion_type = "images_to_video" /\ ~ _is_zip_file(filename)
        THEN msg_not_zip
    ELSE ""

\* a job dict built from the defaults alone
new_conversion_defaults_only(input_params) ==
    [file_path |-> input_params["file"]["file_path"],
     filename |-> input_params["file"]["filename"],
     conversion_type |-> get(input_params, "conversion_type", "video_to_images"),
     fps |-> <<"1","0">>,
     quality |-> "medium",
     image_format |-> <<"p","n","g">>,
     video_format |-> "mp4",
     timestamp |-> now,
     downloaded |-> FALSE]

\* the job dict execute_tool stores
new_conversion(input_params) ==
    [file_path |-> input_params["file"]["file_path"],
     filename |-> input_params["file"]["filename"],
     conversion_type |-> get(input_params, "conversion_type", "video_to_images"),
     fps |-> get(input_params, "fps", <<"1","0">>),
     quality |-> get(input_params, "quality", "medium"),
     image_format |-> get(input_params, "image_format", <<"p","n","g">>),
     video_format |-> get(input_params, "video_format", "mp4"),
     timestamp |-> now,
     downloaded |-> FALSE]

\* "self.error_message = ...; return False"
reject(err) ==
    /\ error_message' = err
    /\ ret' = Ret("execute_tool", "", FALSE, "")
    /\ UNCHANGED <<pending_conversions, output, issued>>

\* the token, the job dict, the result page, "return True"
accept(input_params) ==
    /\ pending_conversions' = (uuid4 :> new_conversion(input_params)) @@ pending_conversions
    /\ issued' = issued + 1
    /\ output' = uuid4
    /\ ret' = Ret("execute_tool", "", TRUE, "")
    /\ UNCHANGED error_message

\* execute_tool with the job stored before the file type is checked
execute_tool_store_first(input_params) ==
    LET err == execute_tool_error(input_params) IN
    /\ issued < MaxTokens
    /\ IF err \in {msg_not_video,
                   msg_not_zip}
       THEN /\ pending_conversions' =
                    (uuid4 :> new_conversion(input_params)) @@ pending_conversions
            /\ issued' = issued + 1
            /\ error_message' = err
            /\ ret' = Ret("execute_tool", "", FALSE, "")
            /\ UNCHANGED output
       ELSE IF err # "" THEN reject(err)
       ELSE accept(input_params)
    /\ calls' = <<>>
    /\ UNCHANGED <<files, now, delivered, sweep, inflight>>

\* the model stops issuing tokens after MaxTokens
execute_tool(input_params) ==
    LET err == execute_tool_error(input_params) IN
    /\ issued < MaxTokens
    /\ IF err # "" THEN reject(err) ELSE accept(input_params)
    /\ calls' = <<>>
    /\ UNCHANGED <<files, now, delivered, sweep, inflight>>

(***************************************************************************)
(* More str and filesystem helpers for the conversions.                    *)
(***************************************************************************)
\* the characters used, in code-point order
CodePoints ==
    <<".">> \o Digits \o UpperCase \o <<"_">> \o LowerCase

ord_table == [c \in { CodePoints[i] : i \in DOMAIN CodePoints } |->
                CHOOSE i \in DOMAIN CodePoints : CodePoints[i] = c]
ord(c) == ord_table[c]

\* a < b for str
str_lt(a, b) ==
    \E k \in 1..(Len(a) + 1) :
        /\ k <= Len(b)
        /\ \A j \in 1..(k - 1) : a[j] = b[j]
        /\ (k = Len(a) + 1 \/ ord(a[k]) < ord(b[k]))

\* list.sort() on a list of str
RECURSIVE insert_sorted(_, _)
insert_sorted(x, l) ==
    IF l = <<>> THEN <<x>>
    ELSE IF str_lt(x, Head(l)) THEN <<x>> \o l
    ELSE <<Head(l)>> \o insert_sorted(x, Tail(l))

RECURSIVE sort(_)
sort(l) == IF l = <<>> THEN <<>> ELSE insert_sorted(Head(l), sort(Tail(l)))

\* "%04d" % i
pad4(i) ==
    << Digits[((i \div 1000) % 10) + 1], Digits[((i \div 100) % 10) + 1],
       Digits[((i \div 10) % 10) + 1], Digits[(i % 10) + 1] >>

\* f"frame_{i:04d}.{ext}" and ffmpeg's frame_%04d.{ext}
frame_name(i, ext) == <<"f","r","a","m","e","_">> \o pad4(i) \o <<".">> \o ext

png == <<"p","n","g">>

Directory == [kind |-> "dir"]
Image(data, encoding) == [kind |-> "image", data |-> data, encoding |-> encoding]

\* the files left when the paths of P are deleted
remove(fs, P) == [p \in (DOMAIN fs) \ P |-> fs[p]]

\* os.listdir(dir), as full paths
listdir(fs, dir) ==
    { p \in DOMAIN fs :
        /\ Len(p) = Len(dir) + 2
        /\ SubSeq(p, 1, Len(dir)) = dir
        /\ p[Len(dir) + 1] = "/" }

basename(p) == p[Len(p)]

\* what a conversion helper did: the filesystem it leaves, the external calls
\* it made, the exception it raised ("" when it returned) and its result
Done(fs, cs, value) == [files |-> fs, calls |-> cs, raised |-> "", value |-> value]
Raised(fs, cs, why) == [files |-> fs, calls |-> cs, raised |-> why, value |-> None]

\* the external call that fails for a reason outside the program, if any:
\* the engine, or the filesystem when the scratch directory is emptied
Faults == {"none", "ffmpeg.run", "os.remove"}

(***************************************************************************)
(* _video_to_images                                                        *)
(***************************************************************************)
_video_to_images(token, conversion, fs, fault) ==
    LET input_path == conversion["file_path"]
        image_format == get(conversion, "image_format", png)
        temp_image_dir == images_dir(token)
        zip_path == images_zip_path(token)
        \* os.makedirs(temp_image_dir, exist_ok=True)
        fs1 == (temp_image_dir :> Directory) @@ fs
        \* ffmpeg.run: frame_0001, frame_0002, ... of the source video
        engine_ok == fault # "ffmpeg.run" /\ is_video(fs, input_path)
        fs2 ==
            LET n == media_of(fs[input_path]).nframes
                written == { in_dir(temp_image_dir, frame_name(i, image_format)) : i \in 1..n }
            IN [p \in written |->
                    Image([source |-> input_path,
                           index |-> CHOOSE i \in 1..n :
                                p = in_dir(temp_image_dir, frame_name(i, image_format))],
                          image_format)] @@ fs1
        \* the archive of every listed file that ends with the image format
        packed(f) ==
            { p \in listdir(f, temp_image_dir) :
                endswith(basename(p), <<".">> \o image_format) }
        fs3_partial == (zip_path :> [kind |-> "zip", entries |-> {}]) @@ fs2
        fs3 == (zip_path :> [kind |-> "zip",
                             entries |-> { Member(basename(p), fs2[p].data) : p \in packed(fs2) }])
               @@ fs2
        \* remove every listed file, then the directory
        fs4 == remove(fs3, listdir(fs3, temp_image_dir) \cup {temp_image_dir})
    IN
    IF ~ int_ok(get(conversion, "fps", <<"1","0">>))
        THEN Raised(fs, <<>>, "ValueError")
    ELSE IF fault = "os.makedirs"
        THEN Raised(fs, <<"os.makedirs">>, "OSError")
    ELSE IF ~ engine_ok
        THEN Raised(fs1, <<"os.makedirs", "ffmpeg.run">>, "ffmpeg.Error")
    ELSE IF fault = "zipfile.ZipFile"
        THEN Raised(fs3_partial, <<"os.makedirs", "ffmpeg.run", "zipfile.ZipFile">>, "OSError")
    ELSE IF fault = "os.remove"
        THEN Raised(fs3, <<"os.makedirs", "ffmpeg.run", "zipfile.ZipFile", "os.remove">>,
                    "OSError")
    ELSE Done(fs4, <<"os.makedirs", "ffmpeg.run", "zipfile.ZipFile", "os.remove", "os.rmdir">>,
              zip_path)

(***************************************************************************)
(* _images_to_video                                                        *)
(***************************************************************************)
\* the job's quality settings table
quality_settings == {"low", "medium", "high"}

\* the loop that re-encodes the sorted images, from the i-th on, as
\* frame_0000.png, frame_0001.png, ...: img.save(new_path) and then
\* os.remove(old_path) unless the two paths are the same
RECURSIVE reencode(_, _, _, _)
reencode(fs, dir, image_files, i) ==
    IF i > Len(image_files) THEN [files |-> fs, raised |-> ""]
    ELSE LET old_path == in_dir(dir, image_files[i])
             new_path == in_dir(dir, frame_name(i - 1, png))
         IN IF old_path \notin DOMAIN fs
            THEN [files |-> fs, raised |-> "FileNotFoundError"]
            ELSE LET saved == (new_path :> Image(fs[old_path].data, "PNG/RGB")) @@ fs
                 IN reencode(IF old_path # new_path THEN remove(saved, {old_path}) ELSE saved,
                             dir, image_files, i + 1)

\* the frames ffmpeg reads for the pattern frame_%04d.png: it looks for the
\* first frame among the numbers 0 to 4 and reads on while the next exists
RECURSIVE frames_from(_, _, _)
frames_from(fs, dir, i) ==
    IF in_dir(dir, frame_name(i, png)) \in DOMAIN fs
    THEN <<fs[in_dir(dir, frame_name(i, png))].data>> \o frames_from(fs, dir, i + 1)
    ELSE <<>>

pattern_frames(fs, dir) ==
    LET starts == { i \in 0..4 : in_dir(dir, frame_name(i, png)) \in DOMAIN fs }
    IN IF starts = {} THEN <<>>
       ELSE frames_from(fs, dir, CHOOSE i \in starts : \A j \in starts : i <= j)

\* the message of the exception raised for an archive without images
no_images_message == "Keine Bilddateien in der ZIP-Datei gefunden"

_images_to_video(token, conversion, fs, fault) ==
    LET input_path == conversion["file_path"]
        video_format == get(conversion, "video_format", "mp4")
        quality == get(conversion, "quality", "medium")
        temp_image_dir == extracted_dir(token)
        output_path == video_path(token, video_format)
        \* os.makedirs(temp_image_dir, exist_ok=True)
        fs1 == (temp_image_dir :> Directory) @@ fs
        archive_ok == fault # "zipfile.ZipFile" /\ is_archive(fs, input_path)
        members == SelectSeq(media_of(fs[input_path]).members,
                             LAMBDA m : _is_image_file(m.name))
        image_files == [i \in DOMAIN members |-> members[i].name]
        \* zipf.extract of every image member; a later member of the same
        \* name overwrites an earlier one
        fs2 ==
            [p \in { in_dir(temp_image_dir, image_files[i]) : i \in DOMAIN image_files } |->
                LET last == CHOOSE i \in DOMAIN members :
                        /\ p = in_dir(temp_image_dir, members[i].name)
                        /\ \A j \in DOMAIN members :
                              p = in_dir(temp_image_dir, members[j].name) => j <= i
                IN Image(members[last].data, "original")] @@ fs1
        loop == reencode(fs2, temp_image_dir, sort(image_files), 1)
        fs3 == loop.files
        frames == pattern_frames(fs3, temp_image_dir)
        fs4 == (output_path :> [kind |-> "video", frames |-> frames]) @@ fs3
        fs5 == remove(fs4, listdir(fs4, temp_image_dir) \cup {temp_image_dir})
        c1 == <<"os.makedirs">>
        c2 == c1 \o <<"zipfile.ZipFile">>
        c3 == c2 \o <<"Image.open">>
        c4 == c3 \o <<"ffmpeg.run">>
    IN
    IF ~ int_ok(get(conversion, "fps", <<"1","0">>))
        THEN Raised(fs, <<>>, "ValueError")
    ELSE IF fault = "os.makedirs"
        THEN Raised(fs, c1, "OSError")
    ELSE IF ~ archive_ok
        THEN Raised(fs1, c2, "zipfile.BadZipFile")
    ELSE IF image_files = <<>>
        THEN Raised(fs1, c2, no_images_message)
    ELSE IF fault = "Image.open"
        THEN Raised(fs2, c3, "PIL.UnidentifiedImageError")
    ELSE IF loop.raised # ""
        THEN Raised(fs3, c3, loop.raised)
    ELSE IF quality \notin quality_settings
        THEN Raised(fs3, c3, "KeyError")
    ELSE IF fault = "ffmpeg.run" \/ frames = <<>>
        THEN Raised(fs3, c4, "ffmpeg.Error")
    ELSE IF fault = "os.remove"
        THEN Raised(fs4, c4 \o <<"os.remove">>, "OSError")
    ELSE Done(fs5, c4 \o <<"os.remove", "os.rmdir">>, output_path)

(***************************************************************************)
(* convert_and_save                                                        *)
(***************************************************************************)
\* the dispatch inside the try block
dispatch(token, conversion, fs, fault) ==
    IF conversion["conversion_type"] = "video_to_images"
    THEN _video_to_images(token, conversion, fs, fault)
    ELSE _images_to_video(token, conversion, fs, fault)

\* "return None" before the try block
return_none(token) ==
    /\ ret' = Ret("convert_and_save", token, None, "")
    /\ calls' = <<>>
    /\ UNCHANGED <<files, delivered>>

\* the try block: the helper's result, or None when it raised
run_conversion(token, fault) ==
    LET r == dispatch(token, pending_conversions[token], files, fault) IN
    /\ files' = r.files
    /\ calls' = r.calls
    \* except Exception as e: print(...); return None
    /\ ret' = Ret("convert_and_save", token, r.value, r.raised)
    /\ delivered' = IF r.value # None THEN delivered \cup {token} ELSE delivered

\* a conversion whose exception is not caught
run_conversion_reraise(token, fault) ==
    LET r == dispatch(token, pending_conversions[token], files, fault) IN
    /\ files' = r.files
    /\ calls' = r.calls
    /\ ret' = [Ret("convert_and_save", token, r.value, "") EXCEPT !.raised = r.raised]
    /\ delivered' = IF r.value # None THEN delivered \cup {token} ELSE delivered

\* convert_and_save without the lookup guard: the subscript raises KeyError
convert_and_save_unchecked(token, fault) ==
    /\ IF token \notin DOMAIN pending_conversions
       THEN /\ ret' = [Ret("convert_and_save", token, None, "") EXCEPT !.raised = "KeyError"]
            /\ calls' = <<>>
            /\ UNCHANGED <<files, delivered>>
       ELSE IF pending_conversions[token]["downloaded"]
       THEN return_none(token)
       ELSE run_conversion(token, fault)
    /\ UNCHANGED <<pending_conversions, error_message, output, now, issued, sweep, inflight>>

\* convert_and_save without the downloaded guard
convert_and_save_again(token, fault) ==
    /\ IF token \notin DOMAIN pending_conversions
       THEN return_none(token)
       ELSE run_conversion(token, fault)
    /\ UNCHANGED <<pending_conversions, error_message, output, now, issued, sweep, inflight>>

\* convert_and_save without the try block
convert_and_save_reraise(token, fault) ==
    /\ IF token \notin DOMAIN pending_conversions
       THEN return_none(token)
       ELSE IF pending_conversions[token]["downloaded"]
       THEN return_none(token)
       ELSE run_conversion_reraise(token, fault)
    /\ UNCHANGED <<pending_conversions, error_message, output, now, issued, sweep, inflight>>

\* convert_and_save that stamps the job with the time of the conversion
convert_and_save_restamp(token, fault) ==
    /\ IF token \notin DOMAIN pending_conversions
       THEN return_none(token) /\ UNCHANGED pending_conversions
       ELSE IF pending_conversions[token]["downloaded"]
       THEN return_none(token) /\ UNCHANGED pending_conversions
       ELSE /\ run_conversion(token, fault)
            /\ pending_conversions' =
                    [pending_conversions EXCEPT ![token]["timestamp"] = now]
    /\ UNCHANGED <<error_message, output, now, issued, sweep, inflight>>

convert_and_save(token, fault) ==
    /\ IF token \notin DOMAIN pending_conversions
       THEN return_none(token)
       ELSE IF pending_conversions[token]["downloaded"]
       THEN return_none(token)
       ELSE run_conversion(token, fault)
    /\ UNCHANGED <<pending_conversions, error_message, output, now, issued, sweep, inflight>>

(***************************************************************************)
(* cleanup_old_files                                                       *)
(***************************************************************************)
\* the condition with >= for >
eligible_inclusive(conversion, t) ==
    \/ t - conversion["timestamp"] >= RetentionMinutes
    \/ conversion["downloaded"]

\* the condition without the age
eligible_downloaded_only(conversion, t) ==
    conversion["downloaded"]

\* the condition without the downloaded flag
eligible_age_only(conversion, t) ==
    t - conversion["timestamp"] > RetentionMinutes

\* the condition of the loop: older than an hour, or downloaded
eligible(conversion, t) ==
    \/ t - conversion["timestamp"] > RetentionMinutes
    \/ conversion["downloaded"]

\* the derived file, with the default video format for the stored one
artifact_path_default_format(token, conversion) ==
    IF conversion["conversion_type"] = "video_to_images"
    THEN images_zip_path(token)
    ELSE video_path(token, "mp4")

\* the derived file the loop looks for
artifact_path(token, conversion) ==
    IF conversion["conversion_type"] = "video_to_images"
    THEN images_zip_path(token)
    ELSE video_path(token, get(conversion, "video_format", "mp4"))

\* the try block without its second half: only the source file is deleted
cleanup_one_source_only(fs, token, conversion, bad) ==
    LET source == conversion["file_path"]
    IN IF source \in DOMAIN fs /\ source = bad THEN fs ELSE remove(fs, {source})

\* the try block for one job: the source file, then the derived file; an
\* os.remove that raises (the path bad) ends the block
cleanup_one(fs, token, conversion, bad) ==
    LET source == conversion["file_path"]
        derived == artifact_path(token, conversion)
    IN IF source \in DOMAIN fs /\ source = bad THEN fs
       ELSE LET fs1 == remove(fs, {source})
            IN IF derived \in DOMAIN fs1 /\ derived = bad THEN fs1
               ELSE remove(fs1, {derived})

\* the loop over the dict, in insertion order
RECURSIVE cleanup_loop(_, _, _, _)
cleanup_loop(fs, tokens, t, bad) ==
    IF tokens = <<>> THEN fs
    ELSE LET token == Head(tokens)
             conversion == pending_conversions[token]
         IN cleanup_loop(IF eligible(conversion, t)
                         THEN cleanup_one(fs, token, conversion, bad)
                         ELSE fs,
                         Tail(tokens), t, bad)

\* the keys of the dict in insertion order: tokens are stored as they are
\* issued
insertion_order ==
    SelectSeq(SubSeq(TokenNames, 1, issued), LAMBDA k : k \in DOMAIN pending_conversions)

\* the paths whose deletion the sweep may attempt
cleanup_targets ==
    UNION { { pending_conversions[k]["file_path"],
              artifact_path(k, pending_conversions[k]) } : k \in DOMAIN pending_conversions }

\* cleanup_old_files without the except clause: an os.remove that raises
\* ends the call before any job is popped
cleanup_old_files_abort(bad) ==
    LET tokens_to_remove ==
            { k \in DOMAIN pending_conversions : eligible(pending_conversions[k], now) }
        expected == remove(files, UNION { { pending_conversions[k]["file_path"],
                                    artifact_path(k, pending_conversions[k]) } : k \in tokens_to_remove })
        failed == cleanup_loop(files, insertion_order, now, bad) # expected
    IN /\ files' = cleanup_loop(files, insertion_order, now, bad)
       /\ pending_conversions' =
            IF failed THEN pending_conversions
            ELSE [k \in (DOMAIN pending_conversions) \ tokens_to_remove |-> pending_conversions[k]]
       /\ ret' = [Ret("cleanup_old_files", "", None, "")
                    EXCEPT !.raised = IF failed THEN "OSError" ELSE ""]
       /\ calls' = <<>>
       /\ UNCHANGED <<error_message, output, now, issued, delivered, sweep, inflight>>

cleanup_old_files(bad) ==
    LET tokens_to_remove ==
            { k \in DOMAIN pending_conversions : eligible(pending_conversions[k], now) }
    IN /\ files' = cleanup_loop(files, insertion_order, now, bad)
       /\ pending_conversions' =
            [k \in (DOMAIN pending_conversions) \ tokens_to_remove |-> pending_conversions[k]]
       /\ ret' = Ret("cleanup_old_files", "", None,
                     IF files' # remove(files, UNION { { pending_conversions[k]["file_path"],
                                    artifact_path(k, pending_conversions[k]) } : k \in tokens_to_remove })
                     THEN "Fehler beim Aufraeumen von Dateien" ELSE "")
       /\ calls' = <<>>
       /\ UNCHANGED <<error_message, output, now, issued, delivered, sweep, inflight>>

(***************************************************************************)
(* The download route: after convert_and_save has returned the path of the *)
(* artifact, the route marks the job it has just delivered                 *)
(* (JobStore.markConsumed).                                                *)
(***************************************************************************)
markConsumed(token) ==
    /\ ret["op"] = "convert_and_save" /\ ret["arg"] = token /\ ret["value"] # None
    /\ token \in DOMAIN pending_conversions
    /\ pending_conversions' =
            [pending_conversions EXCEPT ![token]["downloaded"] = TRUE]
    /\ ret' = Ret("markConsumed", token, None, "")
    /\ calls' = <<>>
    /\ UNCHANGED <<error_message, output, files, now, issued, delivered, sweep, inflight>>

\* the tokens a caller may present: issued ones, and ones not issued yet
TokenArgs == Tokens \cup {"invalid_token"}

(***************************************************************************)
(* The upload layer stages every upload at a path of its own: the file of  *)
(* a request is not the source file of a job already in the store.         *)
(***************************************************************************)
staged(input_params) ==
    \A k \in DOMAIN pending_conversions :
        ("file" \in DOMAIN input_params /\ "file_path" \in DOMAIN input_params["file"])
            => pending_conversions[k]["file_path"] # input_params["file"]["file_path"]

(***************************************************************************)
(* cleanup_old_files step by step, as it runs in one thread while requests *)
(* are served in others: the iterator over the dict is created, each       *)
(* iteration of the loop takes the next item, and the eligible tokens are  *)
(* popped after the loop.  The iterator remembers the size of the dict and *)
(* raises RuntimeError("dictionary changed size during iteration") when it *)
(* is asked for the next item of a dict whose size has changed.            *)
(***************************************************************************)
\* now = datetime.now(); tokens_to_remove = []; iter(self.pending_conversions.items())
cleanup_begin ==
    /\ sweep.pc = "idle"
    /\ sweep' = [pc |-> "loop", now |-> now,
                 used |-> Cardinality(DOMAIN pending_conversions),
                 rest |-> insertion_order, tokens_to_remove |-> <<>>, printed |-> "",
                 start |-> DOMAIN pending_conversions]
    /\ UNCHANGED <<pending_conversions, error_message, output, files, now, issued, ret,
                   calls, delivered, inflight>>

\* one iteration: the next item, or the end of the loop, or RuntimeError,
\* which nothing in cleanup_old_files catches
cleanup_next(bad) ==
    /\ sweep.pc = "loop"
    /\ IF Cardinality(DOMAIN pending_conversions) # sweep.used
       THEN /\ sweep' = Idle
            /\ ret' = [Ret("cleanup_old_files", "", None, sweep.printed)
                          EXCEPT !.raised = "RuntimeError"]
            /\ calls' = <<>>
            /\ UNCHANGED files
       ELSE IF sweep.rest = <<>>
       THEN /\ sweep' = [sweep EXCEPT !.pc = "pop"]
            /\ UNCHANGED <<files, ret, calls>>
       ELSE LET token == Head(sweep.rest)
                conversion == pending_conversions[token]
                cleaned == cleanup_one(files, token, conversion, bad)
            IN IF eligible(conversion, sweep.now)
               THEN /\ files' = cleaned
                    /\ sweep' = [sweep EXCEPT
                            !.rest = Tail(@),
                            !.tokens_to_remove = Append(@, token),
                            !.printed =
                                IF cleaned # remove(files, { conversion["file_path"],
                                                             artifact_path(token, conversion) })
                                THEN "Fehler beim Aufraeumen von Dateien" ELSE @]
                    /\ UNCHANGED <<ret, calls>>
               ELSE /\ sweep' = [sweep EXCEPT !.rest = Tail(@)]
                    /\ UNCHANGED <<files, ret, calls>>
    /\ UNCHANGED <<pending_conversions, error_message, output, now, issued, delivered,
                   inflight>>

\* for token in tokens_to_remove: self.pending_conversions.pop(token, None)
cleanup_pop ==
    /\ sweep.pc = "pop"
    /\ pending_conversions' =
            [k \in (DOMAIN pending_conversions)
                    \ { sweep.tokens_to_remove[i] : i \in DOMAIN sweep.tokens_to_remove } |->
                pending_conversions[k]]
    /\ ret' = Ret("cleanup_old_files", "", None, sweep.printed)
    /\ calls' = <<>>
    /\ sweep' = Idle
    /\ UNCHANGED <<error_message, output, files, now, issued, delivered, inflight>>

(***************************************************************************)
(* convert_and_save in two steps, as it runs in one thread while the sweep *)
(* runs in another.  The first step is the call up to the point where the  *)
(* source has been read: the lookup and the downloaded check, the scratch  *)
(* directory, and the engine holding the source video open (or the members *)
(* of the archive extracted).  The second step is the rest of the call:    *)
(* it works on what was read, whatever has happened to the source file and *)
(* to the job in between.                                                  *)
(***************************************************************************)
\* the scratch directory the helper of a job makes
scratch_dir(token, conversion) ==
    IF conversion["conversion_type"] = "video_to_images"
    THEN images_dir(token) ELSE extracted_dir(token)

convert_begin(token) ==
    /\ inflight.pc = "idle"
    /\ IF token \notin DOMAIN pending_conversions
       THEN return_none(token) /\ UNCHANGED inflight
       ELSE IF pending_conversions[token]["downloaded"]
       THEN return_none(token) /\ UNCHANGED inflight
       ELSE LET conversion == pending_conversions[token]
                input_path == conversion["file_path"]
            IN IF \/ input_path \notin DOMAIN files
                  \/ ~ int_ok(get(conversion, "fps", <<"1","0">>))
               \* nothing to read: the helper raises at once
               THEN run_conversion(token, "none") /\ UNCHANGED inflight
               ELSE /\ inflight' = [pc |-> "running", token |-> token,
                                    conversion |-> conversion, input |-> files[input_path]]
                    /\ files' = (scratch_dir(token, conversion) :> Directory) @@ files
                    /\ UNCHANGED <<ret, calls, delivered>>
    /\ UNCHANGED <<pending_conversions, error_message, output, now, issued, sweep>>

convert_end ==
    /\ inflight.pc = "running"
    /\ LET token == inflight.token
           conversion == inflight.conversion
           input_path == conversion["file_path"]
           \* the source as it was read
           r == dispatch(token, conversion, (input_path :> inflight.input) @@ files, "none")
       IN /\ files' = IF input_path \in DOMAIN files
                      THEN r.files ELSE remove(r.files, {input_path})
          /\ calls' = r.calls
          /\ ret' = Ret("convert_and_save", token, r.value, r.raised)
          /\ delivered' = IF r.value # None THEN delivered \cup {token} ELSE delivered
    /\ inflight' = NotConverting
    /\ UNCHANGED <<pending_conversions, error_message, output, now, issued, sweep>>

Next ==
    \/ Tick
    \/ \E input_params \in Requests : staged(input_params) /\ execute_tool(input_params)
    \/ \E token \in TokenArgs, fault \in Faults : convert_and_save(token, fault)
    \/ \E bad \in {None} \cup cleanup_targets : cleanup_old_files(bad)
    \/ \E token \in Tokens : markConsumed(token)

\* the lifecycle of jobs: submission, conversion, download, sweep
Spec == Init /\ [][Next]_vars

\* validation of submissions over a wide set of requests
NextValidate ==
    \E input_params \in ValidationRequests : staged(input_params) /\ execute_tool(input_params)

SpecValidate == Init /\ [][NextValidate]_vars

\* the lifecycle up to the last instant of the clock, with jobs submitted
\* while the clock can still run past their retention window, time that
\* keeps advancing and a sweep that is invoked again and again
NextLive ==
    \/ Tick
    \/ \E input_params \in Requests :
            /\ now + RetentionMinutes < MaxTime
            /\ staged(input_params)
            /\ execute_tool(input_params)
    \/ \E token \in TokenArgs, fault \in Faults : convert_and_save(token, fault)
    \/ \E bad \in {None} \cup cleanup_targets : cleanup_old_files(bad)
    \/ \E token \in Tokens : markConsumed(token)

SpecLive ==
    /\ Init
    /\ [][NextLive]_vars
    /\ WF_vars(Tick)
    /\ WF_vars(\E bad \in {None} \cup cleanup_targets : cleanup_old_files(bad))

\* requests served while a sweep runs in another thread
NextConcurrent ==
    \/ Tick
    \/ \E input_params \in Requests : staged(input_params) /\ execute_tool(input_params)
    \/ \E token \in Tokens : convert_and_save(token, "none")
    \/ cleanup_begin
    \/ \E bad \in {None} \cup cleanup_targets : cleanup_next(bad)
    \/ cleanup_pop

SpecConcurrent == Init /\ [][NextConcurrent]_vars

\* submission with any conversion_type, and conversion of what was stored
NextDirection ==
    \/ \E input_params \in DirectionRequests :
            staged(input_params) /\ execute_tool(input_params)
    \/ \E token \in Tokens : convert_and_save(token, "none")

SpecDirection == Init /\ [][NextDirection]_vars

\* the requests of the race between download and expiry: jobs whose
\* conversion succeeds
RaceRequests ==
    { Req(clip_path, f_mkv, "video_to_images"),
      Req(frames_path, f_ZIP, "images_to_video") @@ all_options }

\* a download in one thread, the sweep in another, neither failing
NextRace ==
    \/ Tick
    \/ \E input_params \in RaceRequests : staged(input_params) /\ execute_tool(input_params)
    \/ \E token \in Tokens : convert_begin(token)
    \/ convert_end
    \/ cleanup_begin
    \/ cleanup_next(None)
    \/ cleanup_pop

SpecRace == Init /\ [][NextRace]_vars

\* conversion of archives: one staged archive of any listing is submitted
\* for images_to_video and converted
InitFrames ==
    /\ pending_conversions = <<>>
    /\ error_message = ""
    /\ output = ""
    /\ files \in { (frames_path :> ArchiveUpload(listing)) : listing \in Listings }
    /\ now = 0
    /\ issued = 0
    /\ ret = Ret("__init__", "", None, "")
    /\ calls = <<>>
    /\ delivered = {}
    /\ sweep = Idle
    /\ inflight = NotConverting

NextFrames ==
    \/ \E input_params \in { Req(frames_path, f_zip, "images_to_video") } :
            staged(input_params) /\ execute_tool(input_params)
    \/ \E token \in Tokens : convert_and_save(token, "none")

SpecFrames == InitFrames /\ [][NextFrames]_vars

(***************************************************************************)
(* Properties.                                                             *)
(***************************************************************************)
\* a step that is a call of convert_and_save with this token
Converts(token) ==
    /\ ret'["op"] = "convert_and_save"
    /\ ret'["arg"] = token
    /\ \E fault \in Faults : convert_and_save(token, fault)

\* C1: for every token, convert_and_save returns an artifact path at most
\* once: once it has returned the path of a token's artifact, every later
\* call with that token returns None.
C1_DeliveredAtMostOnce ==
    [][\A token \in TokenArgs :
          (Converts(token) /\ token \in delivered) => ret'["value"] = None]_vars

\* C2: for a token that is not a key of pending_conversions,
\* convert_and_save returns None, raises nothing, makes no external call
\* and leaves the job store and the files as they were.
C2_UnknownTokenNoOp ==
    [][\A token \in TokenArgs :
          (Converts(token) /\ token \notin DOMAIN pending_conversions)
          => /\ ret'["value"] = None
             /\ ret'["raised"] = ""
             /\ calls' = <<>>
             /\ pending_conversions' = pending_conversions
             /\ files' = files]_vars

\* a call with an unknown token has returned while the store holds a job
C2_Witness ==
    /\ ret["op"] = "convert_and_save"
    /\ ret["arg"] \notin DOMAIN pending_conversions
    /\ ret["value"] = None
    /\ pending_conversions # <<>>

\* C3: for a job whose downloaded flag is set, every call of
\* convert_and_save with its token returns None, raises nothing, makes no
\* external call and changes neither the job record nor any file.
C3_DownloadedNoOp ==
    [][\A token \in TokenArgs :
          ( /\ Converts(token)
            /\ token \in DOMAIN pending_conversions
            /\ pending_conversions[token]["downloaded"] )
          => /\ ret'["value"] = None
             /\ ret'["raised"] = ""
             /\ calls' = <<>>
             /\ pending_conversions' = pending_conversions
             /\ files' = files]_vars

\* a call for a downloaded job has returned; its artifact is still on disk
C3_Witness ==
    /\ ret["op"] = "convert_and_save"
    /\ ret["arg"] \in DOMAIN pending_conversions
    /\ pending_conversions[ret["arg"]]["downloaded"]
    /\ ret["value"] = None
    /\ artifact_path(ret["arg"], pending_conversions[ret["arg"]]) \in DOMAIN files

\* a step that is a call of convert_and_save with this token in which the
\* conversion is run and this fault is injected
Runs(token, fault) ==
    /\ ret'["op"] = "convert_and_save"
    /\ ret'["arg"] = token
    /\ token \in DOMAIN pending_conversions
    /\ ~ pending_conversions[token]["downloaded"]
    /\ convert_and_save(token, fault)

\* C4: when a step of the conversion fails inside convert_and_save (the
\* engine, missing frames, the filesystem), convert_and_save returns None
\* and raises nothing, and the job stays in the store, unchanged, with
\* downloaded = False; a job that is not downloaded leaves the store only in
\* a sweep that finds it older than the retention window.
C4_FailureReturnsNone ==
    [][ /\ \A token \in Tokens, fault \in Faults :
              ( /\ Runs(token, fault)
                /\ dispatch(token, pending_conversions[token], files, fault).raised # "" )
              => /\ ret'["value"] = None
                 /\ ret'["raised"] = ""
                 /\ token \in DOMAIN pending_conversions'
                 /\ pending_conversions'[token] = pending_conversions[token]
                 /\ ~ pending_conversions'[token]["downloaded"]
        /\ \A k \in DOMAIN pending_conversions :
              (~ pending_conversions[k]["downloaded"] /\ k \notin DOMAIN pending_conversions')
              => /\ ret'["op"] = "cleanup_old_files"
                 /\ now - pending_conversions[k]["timestamp"] > RetentionMinutes ]_vars

\* the engine has failed in a conversion: the call returned None and the
\* job is still there, not downloaded
C4_Witness ==
    /\ ret["op"] = "convert_and_save"
    /\ ret["printed"] = "ffmpeg.Error"
    /\ ret["value"] = None
    /\ ret["arg"] \in DOMAIN pending_conversions
    /\ ~ pending_conversions[ret["arg"]]["downloaded"]

\* the image extensions the specification lists
SpecImageExtensions ==
    { <<"p","n","g">>, <<"j","p","g">>, <<"j","p","e","g">>, <<"g","i","f">>,
      <<"b","m","p">>, <<"w","e","b","p">>, <<"t","i","f","f">> }

\* whether a name ends, whatever the case, in a dot and one of the extensions
HasExtension(name, extensions) ==
    \E e \in extensions : endswith(lower(name), <<".">> \o e)

\* a job that converts images to a video whose archive is readable and has
\* no member with an image extension
EmptyArchiveJob(token) ==
    /\ token \in DOMAIN pending_conversions
    /\ ~ pending_conversions[token]["downloaded"]
    /\ pending_conversions[token]["conversion_type"] = "images_to_video"
    /\ int_ok(pending_conversions[token]["fps"])
    /\ is_archive(files, pending_conversions[token]["file_path"])
    /\ LET members == media_of(files[pending_conversions[token]["file_path"]]).members
       IN \A i \in DOMAIN members : ~ HasExtension(members[i].name, SpecImageExtensions)

Submits(input_params) ==
    /\ ret'["op"] = "execute_tool"
    /\ execute_tool(input_params)

\* a request that names a staged file and its declared filename
HasFile(input_params) ==
    /\ "file" \in DOMAIN input_params
    /\ {"file_path", "filename"} \subseteq DOMAIN input_params["file"]
    /\ input_params["file"]["file_path"] \in DOMAIN files

\* a size of more than 2 * 1024^3 bytes
Exceeds2GiB(size) == size.hi > 2 \/ (size.hi = 2 /\ size.lo >= 1)

\* C6: a rejected submit (execute_tool returning False) leaves the job store
\* exactly as it was, writes no file and makes no external call.
C6_RejectChangesNothing ==
    [][\A input_params \in ValidationRequests :
          (Submits(input_params) /\ ret'["value"] = FALSE)
          => /\ pending_conversions' = pending_conversions
             /\ files' = files
             /\ calls' = <<>>]_vars

\* a submit was rejected for its file type while the store holds a job
C6_Witness ==
    /\ ret["op"] = "execute_tool"
    /\ ret["value"] = FALSE
    /\ error_message \in {msg_not_video, msg_not_zip}
    /\ pending_conversions # <<>>

\* the job a request is to be stored as: the supplied options, or frame rate
\* 10, quality medium, image format png, video format mp4
ExpectedJob(input_params, t) ==
    [file_path |-> input_params["file"]["file_path"],
     filename |-> input_params["file"]["filename"],
     conversion_type |->
        IF "conversion_type" \in DOMAIN input_params
        THEN input_params["conversion_type"] ELSE "video_to_images",
     fps |-> IF "fps" \in DOMAIN input_params THEN input_params["fps"] ELSE <<"1","0">>,
     quality |->
        IF "quality" \in DOMAIN input_params THEN input_params["quality"] ELSE "medium",
     image_format |->
        IF "image_format" \in DOMAIN input_params
        THEN input_params["image_format"] ELSE <<"p","n","g">>,
     video_format |->
        IF "video_format" \in DOMAIN input_params
        THEN input_params["video_format"] ELSE "mp4",
     timestamp |-> t,
     downloaded |-> FALSE]

\* C7: a successful submit adds exactly one job under a token that was not a
\* key of the store, with downloaded = False, timestamp = now and the
\* supplied options or the defaults; every job stored before is unchanged,
\* no file is touched and no conversion step is run.
C7_AcceptAddsOneJob ==
    [][\A input_params \in Requests :
          (Submits(input_params) /\ ret'["value"] = TRUE)
          => \E token \in Tokens :
                /\ token \notin DOMAIN pending_conversions
                /\ DOMAIN pending_conversions' = DOMAIN pending_conversions \cup {token}
                /\ pending_conversions'[token] = ExpectedJob(input_params, now)
                /\ \A k \in DOMAIN pending_conversions :
                      pending_conversions'[k] = pending_conversions[k]
                /\ output' = token
                /\ files' = files
                /\ calls' = <<>>]_vars

\* a submit with supplied options was accepted while the store held a job
\* with the default options
C7_Witness ==
    /\ ret["op"] = "execute_tool"
    /\ ret["value"] = TRUE
    /\ Cardinality(DOMAIN pending_conversions) = 2
    /\ pending_conversions[output]["video_format"] = "avi"
    /\ pending_conversions[output]["timestamp"] > 0
    /\ \E k \in DOMAIN pending_conversions : pending_conversions[k]["video_format"] = "mp4"

\* C8: submit rejects with the too-large message exactly when the size of
\* the file is more than 2 * 1024^3 bytes: 2 * 1024^3 + 1 is rejected,
\* 2 * 1024^3 passes the size check.
C8_SizeLimit ==
    [][\A input_params \in ValidationRequests :
          (Submits(input_params) /\ HasFile(input_params))
          => ( (ret'["value"] = FALSE /\ error_message' = msg_too_large)
               <=> Exceeds2GiB(getsize(files, input_params["file"]["file_path"])) )]_vars

\* a file of exactly 2 * 1024^3 bytes was accepted after a file of one byte
\* more was rejected
C8_Witness ==
    /\ ret["op"] = "execute_tool"
    /\ ret["value"] = TRUE
    /\ error_message = msg_too_large
    /\ pending_conversions[output]["file_path"] = edge_path
    /\ getsize(files, edge_path) = Big(2, 0)

\* the video extensions the specification lists
SpecVideoExtensions ==
    { <<"m","p","4">>, <<"a","v","i">>, <<"m","o","v">>, <<"m","k","v">>,
      <<"w","m","v">>, <<"f","l","v">>, <<"w","e","b","m">>, <<"m","4","v">> }

\* whether a name ends, letter for letter, in a dot and one of the extensions
HasExtensionExact(name, extensions) ==
    \E e \in extensions : endswith(name, <<".">> \o e)

\* the outcome of the file type check of a submit within the size limit,
\* given when a name counts as a video
ExtensionGate(IsVideoName(_)) ==
    \A input_params \in ValidationRequests :
       ( /\ Submits(input_params)
         /\ HasFile(input_params)
         /\ ~ Exceeds2GiB(getsize(files, input_params["file"]["file_path"])) )
       => LET filename == input_params["file"]["filename"]
              direction ==
                 IF "conversion_type" \in DOMAIN input_params
                 THEN input_params["conversion_type"] ELSE "video_to_images"
          IN /\ direction = "video_to_images"
                => /\ ret'["value"] = TRUE <=> IsVideoName(filename)
                   /\ ret'["value"] = FALSE => error_message' = msg_not_video
             /\ direction = "images_to_video"
                => /\ ret'["value"] = TRUE <=> HasExtension(filename, {<<"z","i","p">>})
                   /\ ret'["value"] = FALSE => error_message' = msg_not_zip

\* C9 as stated: for a file within the size limit, a submit for
\* video_to_images succeeds iff the declared filename ends in one of the
\* video extensions as they are listed, and a submit for images_to_video
\* succeeds iff it ends in .zip compared without regard to case; otherwise it
\* is rejected with the message for the wrong file type.
C9_ExtensionGateAsStated ==
    [][LET AsListed(name) == HasExtensionExact(name, SpecVideoExtensions)
       IN ExtensionGate(AsListed)]_vars

\* C9: for a file within the size limit, a submit for video_to_images (the
\* default) succeeds iff the declared filename ends in a dot and one of the
\* video extensions, and a submit for images_to_video succeeds iff it ends
\* in .zip, both compared without regard to case; otherwise it is rejected
\* with the message for the wrong file type.
C9_ExtensionGate ==
    [][LET AnyCase(name) == HasExtension(name, SpecVideoExtensions)
       IN ExtensionGate(AnyCase)]_vars

\* a video declared as A.MKV was accepted for video_to_images while the store
\* holds an archive declared as f.ZIP accepted for images_to_video
C9_Witness ==
    /\ ret["op"] = "execute_tool"
    /\ ret["value"] = TRUE
    /\ pending_conversions[output]["conversion_type"] = "video_to_images"
    /\ pending_conversions[output]["filename"] = f_MKV
    /\ \E k \in DOMAIN pending_conversions :
          /\ pending_conversions[k]["conversion_type"] = "images_to_video"
          /\ pending_conversions[k]["filename"] = f_ZIP

\* a step that is a call of cleanup_old_files
Sweeps ==
    /\ ret'["op"] = "cleanup_old_files"
    /\ \E bad \in {None} \cup cleanup_targets : cleanup_old_files(bad)

\* the files of a job: its source file and every path derived from its token
OwnFiles(token, conversion, fs) ==
    [p \in { q \in DOMAIN fs :
                q = conversion["file_path"] \/ (Len(q) >= 3 /\ q[3] = token) } |-> fs[p]]

\* C10: a sweep at time now removes every job that is not downloaded and is
\* more than an hour old, and keeps, with its record and its files unchanged,
\* every job that is not downloaded and is at most an hour old.
C10_SweepByAge ==
    [][Sweeps =>
          \A k \in DOMAIN pending_conversions :
             ~ pending_conversions[k]["downloaded"]
             => IF now - pending_conversions[k]["timestamp"] > 60
                THEN k \notin DOMAIN pending_conversions'
                ELSE /\ k \in DOMAIN pending_conversions'
                     /\ pending_conversions'[k] = pending_conversions[k]
                     /\ OwnFiles(k, pending_conversions[k], files')
                            = OwnFiles(k, pending_conversions[k], files)]_vars

\* a sweep at minute 61 has removed the job of minute 0, which nobody
\* downloaded, and kept a younger one with its source file
C10_Witness ==
    /\ ret["op"] = "cleanup_old_files"
    /\ now = 61
    /\ delivered = {}
    /\ issued = 2
    /\ DOMAIN pending_conversions = {"t2"}
    /\ pending_conversions["t2"]["timestamp"] = 59
    /\ pending_conversions["t2"]["file_path"] \in DOMAIN files

\* the condition under which a sweep at time t is to remove a job
Expired(conversion, t) == conversion["downloaded"] \/ t - conversion["timestamp"] > 60

\* the derived artifact of a job, by the naming convention
SpecArtifact(token, conversion) ==
    IF conversion["conversion_type"] = "video_to_images"
    THEN <<"/tmp", "images_", token, ".zip">>
    ELSE <<"/tmp", "video_", token, ".", conversion["video_format"]>>

\* a step that is a call of cleanup_old_files in which the deletion of the
\* path bad fails (None: no deletion fails)
SweepsWith(bad) ==
    /\ ret'["op"] = "cleanup_old_files"
    /\ cleanup_old_files(bad)

\* C11: a sweep removes every job whose downloaded flag is true, whatever
\* its age, also when no time has passed since the job was created.
C11_SweepRemovesDownloaded ==
    [][Sweeps =>
          \A k \in DOMAIN pending_conversions :
             pending_conversions[k]["downloaded"] => k \notin DOMAIN pending_conversions']_vars

\* a sweep at minute 0 has removed a job that was created, converted and
\* marked as downloaded in that minute
C11_Witness ==
    /\ ret["op"] = "cleanup_old_files"
    /\ now = 0
    /\ "t1" \in delivered
    /\ "t1" \notin DOMAIN pending_conversions

\* C12: a sweep removes every eligible job from the store whether or not
\* the deletion of its files succeeded; a deletion that fails for one job is
\* not surfaced and does not keep the sweep from deleting the files of the
\* other eligible jobs and removing them.
C12_SweepRemovesDespiteFailure ==
    [][\A bad \in {None} \cup cleanup_targets :
          SweepsWith(bad)
          => /\ ret'["raised"] = ""
             /\ \A k \in DOMAIN pending_conversions :
                   Expired(pending_conversions[k], now)
                   => /\ k \notin DOMAIN pending_conversions'
                      /\ bad \notin { pending_conversions[k]["file_path"],
                                      SpecArtifact(k, pending_conversions[k]) }
                         => /\ pending_conversions[k]["file_path"] \notin DOMAIN files'
                            /\ SpecArtifact(k, pending_conversions[k]) \notin DOMAIN files']_vars

\* a sweep has removed two jobs that nobody downloaded although the source
\* file of the first could not be deleted; the source file of the second is
\* gone
C12_Witness ==
    /\ ret["op"] = "cleanup_old_files"
    /\ ret["printed"] # ""
    /\ delivered = {}
    /\ issued = 2
    /\ pending_conversions = <<>>
    /\ clip_path \in DOMAIN files
    /\ frames_path \notin DOMAIN files

\* C13: after a sweep in which no deletion fails, neither the source file
\* nor the derived artifact of any job the sweep removed exists.
C13_SweepDeletesFiles ==
    [][SweepsWith(None) =>
          \A k \in (DOMAIN pending_conversions) \ (DOMAIN pending_conversions') :
             /\ pending_conversions[k]["file_path"] \notin DOMAIN files'
             /\ SpecArtifact(k, pending_conversions[k]) \notin DOMAIN files']_vars

\* a sweep without a failure has removed a job whose artifact had been
\* produced: neither its source nor its artifact is left
C13_Witness ==
    /\ ret["op"] = "cleanup_old_files"
    /\ ret["printed"] = ""
    /\ "t1" \in delivered
    /\ "t1" \notin DOMAIN pending_conversions
    /\ \A p \in DOMAIN files : Len(p) >= 3 => p[3] # "t1"
    /\ \E p \in DOMAIN Uploads : p \notin DOMAIN files

\* the scratch directory of a job and what it holds
Scratch(token, fs) ==
    { p \in DOMAIN fs :
        /\ Len(p) >= 3
        /\ p[3] = token
        /\ p[2] \in {"images_", "extracted_"}
        /\ (Len(p) = 3 \/ p[4] = "/") }

\* C14: when a call of convert_and_save that ran a conversion returns, the
\* scratch directory of the job and its contents do not exist, whether the
\* conversion succeeded or failed.
C14_ScratchRemoved ==
    [][\A token \in Tokens :
          ( /\ Converts(token)
            /\ token \in DOMAIN pending_conversions
            /\ ~ pending_conversions[token]["downloaded"] )
          => Scratch(token, files') = {}]_vars

\* C18: while a job remains in the store, no operation changes its
\* conversion_type, timestamp or file_path, and its downloaded flag never
\* goes from True back to False.
C18_JobFieldsStable ==
    [][\A k \in (DOMAIN pending_conversions) \cap (DOMAIN pending_conversions') :
          /\ pending_conversions'[k]["conversion_type"] = pending_conversions[k]["conversion_type"]
          /\ pending_conversions'[k]["timestamp"] = pending_conversions[k]["timestamp"]
          /\ pending_conversions'[k]["file_path"] = pending_conversions[k]["file_path"]
          /\ pending_conversions[k]["downloaded"] => pending_conversions'[k]["downloaded"]]_vars

\* the job of minute 0 is still in the store, as it was created, after the
\* submit of another job and its own conversion an hour later
C18_Witness ==
    /\ ret["op"] = "convert_and_save"
    /\ ret["arg"] = "t1"
    /\ ret["value"] # None
    /\ issued = 2
    /\ now >= 59
    /\ "t1" \in DOMAIN pending_conversions
    /\ pending_conversions["t1"]["timestamp"] = 0

\* C19: deletion errors in a sweep are handled per file: when the deletion
\* of the source file of an eligible job fails, the sweep still deletes the
\* derived artifact of that job if it exists.
C19_ArtifactDeletedDespiteSourceFailure ==
    [][\A bad \in cleanup_targets :
          SweepsWith(bad)
          => \A k \in DOMAIN pending_conversions :
                ( /\ Expired(pending_conversions[k], now)
                  /\ bad = pending_conversions[k]["file_path"]
                  /\ bad \in DOMAIN files
                  /\ SpecArtifact(k, pending_conversions[k]) \in DOMAIN files )
                => SpecArtifact(k, pending_conversions[k]) \notin DOMAIN files']_vars

\* C20: the path a successful convert_and_save wrote and returned for a job
\* is the path the sweep computes for it: images_<token>.zip in the
\* temporary directory for video_to_images, video_<token>.<video_format> for
\* images_to_video, with the video format of the stored record.
C20_ArtifactPathAgrees ==
    [][\A token \in Tokens :
          (Converts(token) /\ ret'["value"] # None)
          => /\ ret'["value"] = artifact_path(token, pending_conversions[token])
             /\ ret'["value"] = SpecArtifact(token, pending_conversions[token])
             /\ ret'["value"] \in DOMAIN files']_vars

\* a conversion of a job submitted with the video format avi has returned
\* the path of the video it has written
C20_Witness ==
    /\ ret["op"] = "convert_and_save"
    /\ ret["value"] # None
    /\ ret["arg"] \in DOMAIN pending_conversions
    /\ pending_conversions[ret["arg"]]["video_format"] = "avi"
    /\ ret["value"] = <<"/tmp", "video_", ret["arg"], ".", "avi">>
    /\ ret["value"] \in DOMAIN files

\* the names of the image members of an archive, in archive order
ImageNames(members) ==
    LET images == SelectSeq(members, LAMBDA m : HasExtension(m.name, SpecImageExtensions))
    IN [i \in DOMAIN images |-> images[i].name]

\* the sequence that lists the same names in lexicographic order
Lexicographic(names) ==
    CHOOSE q \in [DOMAIN names -> { names[i] : i \in DOMAIN names }] :
        /\ { q[i] : i \in DOMAIN q } = { names[i] : i \in DOMAIN names }
        /\ \A i, j \in DOMAIN q : i < j => str_lt(q[i], q[j])

\* the content of the member of the given name
ContentOf(members, name) ==
    (CHOOSE m \in { members[i] : i \in DOMAIN members } : m.name = name).data

\* C15: in an images_to_video conversion, whatever the names of the image
\* members of the archive, the i-th frame handed to the video encoder holds
\* the content of the i-th image member in lexicographic order of the member
\* names.
C15_FramesInLexicographicOrder ==
    [][\A token \in Tokens :
          (Converts(token) /\ ret'["value"] # None)
          => LET members == media_of(files[pending_conversions[token]["file_path"]]).members
                 ordered == Lexicographic(ImageNames(members))
             IN files'[ret'["value"]].frames
                    = [i \in DOMAIN ordered |-> ContentOf(members, ordered[i])]]_vars

\* C17: provided time keeps advancing and the sweep is invoked again and
\* again, every job that is in the store is eventually removed from it, also
\* a job that is never downloaded or whose conversion always fails.
C17_EveryJobEventuallyRemoved ==
    \A token \in Tokens :
        (token \in DOMAIN pending_conversions) ~> (token \notin DOMAIN pending_conversions)

\* the job for the archive without images, whose conversion failed and left
\* its scratch directory, has been removed by a sweep together with its
\* source file; nothing was ever delivered
C17_Witness ==
    /\ ret["op"] = "cleanup_old_files"
    /\ delivered = {}
    /\ issued >= 1
    /\ "t1" \notin DOMAIN pending_conversions
    /\ empty_path \notin DOMAIN files
    /\ <<"/tmp", "extracted_", "t1">> \in DOMAIN files

\* a step in which the sweep in flight ends, by returning or by raising
SweepEnds == sweep.pc # "idle" /\ sweep'.pc = "idle"

\* C16: when submit, convert_and_save and the sweep run concurrently, in
\* every interleaving the sweep completes without error and removes every
\* job that was eligible when it started, and a job submitted while the
\* sweep was iterating is in the store afterwards.
C16_SweepSafeUnderConcurrency ==
    [][SweepEnds =>
          /\ ret'["raised"] = ""
          /\ \A k \in sweep.start :
                Expired(pending_conversions[k], sweep.now)
                => k \notin DOMAIN pending_conversions'
          /\ \A k \in (DOMAIN pending_conversions) \ sweep.start :
                k \in DOMAIN pending_conversions']_vars

\* a job whose conversion_type is one of the two and whose filename has an
\* extension of that type
Validated(conversion) ==
    \/ /\ conversion["conversion_type"] = "video_to_images"
       /\ HasExtension(conversion["filename"], SpecVideoExtensions)
    \/ /\ conversion["conversion_type"] = "images_to_video"
       /\ HasExtension(conversion["filename"], {<<"z","i","p">>})

\* a step in which convert_and_save ran _images_to_video up to the opening
\* of the archive
RunsImagesToVideo(token) ==
    /\ Converts(token)
    /\ Len(calls') >= 2
    /\ calls'[2] = "zipfile.ZipFile"

\* C22: every job that execute_tool places in the store has a
\* conversion_type that is video_to_images or images_to_video and a filename
\* that passed the extension check of that type; consequently
\* convert_and_save never runs the images_to_video conversion on a job that
\* was not submitted as images_to_video with a .zip filename.
C22_StoredJobsValidated ==
    [][/\ \A k \in DOMAIN pending_conversions' : Validated(pending_conversions'[k])
       /\ \A token \in Tokens :
             RunsImagesToVideo(token)
             => /\ pending_conversions[token]["conversion_type"] = "images_to_video"
                /\ HasExtension(pending_conversions[token]["filename"], {<<"z","i","p">>})]_vars

\* the artifacts and scratch directories, with their contents, that carry
\* the token
FilesOf(token) == { p \in DOMAIN files : Len(p) >= 3 /\ p[3] = token }

\* C21: whatever the interleaving of a sweep with a call of convert_and_save
\* in flight for the same job, once both have finished no artifact and no
\* scratch directory is on disk for a token that is no longer in the store.
C21_NoOrphansAfterRace ==
    (sweep.pc = "idle" /\ inflight.pc = "idle")
    => \A i \in 1..issued :
          TokenNames[i] \notin DOMAIN pending_conversions => FilesOf(TokenNames[i]) = {}

====
